---- MODULE Spec2Model ----
(***************************************************************************)
(* The graph store of the crawler (database.go): Create, FindOrCreateNode  *)
(* and CheckOrCreatePredicate run by concurrent callers against a graph    *)
(* database with snapshot reads and optimistic-concurrency commits, and    *)
(* the concurrent tree reconstruction ConvertToPage.                       *)
(***************************************************************************)
EXTENDS Integers, Sequences, FiniteSets, TLC

\* ------------------------------------------------------------------ bounds

\* Number of concurrent callers of Store.Create.
NumProcs == 2

\* The transactions one FindOrCreateNode call has opened are counted up to
\* this number plus one; the loop itself goes on (the count saturates).
MaxFonTxns == 2

\* Number of callers whose queries, mutations and commits can fail for
\* reasons other than a conflict.
MaxFaulty == 1

\* Number of nodes of the nested query result given to ConvertToPage.
MaxTreeNodes == 4

\* Length of the links the functions of the URL normalizer are called with.
MaxHrefLen == 4

\* Number of a elements of the document FetchChildPages reads.
MaxAnchors == 3

Procs == 1..NumProcs

\* ------------------------------------------------------- values of the code

\* The empty uid string "": a uid is a positive number once minted.
EmptyUid == 0

\* currentPage.Parent == nil
NoParent == "nil"

Urls == {"a", "b"}

\* The pages handed to Create: a root page, a page with a parent, and a page
\* that links to itself (parent with the same url).
Pages ==
    { [Url |-> "a", Parent |-> NoParent],
      [Url |-> "a", Parent |-> "b"],
      [Url |-> "b", Parent |-> "b"] }

\* Error values: a message as the sequence of its parts; NilErr is err == nil.
NilErr == <<>>
ErrAborted == <<"rpc error: code = Aborted desc = ", "Transaction has been aborted. Please retry.">>
ErrTooOld == <<"rpc error: code = Unknown desc = ", "Transaction is too old">>
ErrUnavailable == <<"rpc error: code = Unavailable desc = ", "transport is closing">>

\* The errors a failing query, mutation or commit can return.
StoreErrors == {ErrAborted, ErrTooOld, ErrUnavailable}

\* strings.Contains on a message
Contains(msg, part) == \E i \in 1..Len(msg) : msg[i] = part

\* attempts := 10
Attempts == 10

VARIABLES
    nodes,      \* committed Page nodes: records [uid, url]
    edges,      \* committed links edges: pairs <<parentUid, childUid>>
    proc,       \* per caller of Create: its position and its locals
    inserts,    \* committed insertions of each edge so far
    faulty,     \* the callers whose database calls can fail
    json,       \* ConvertToPage: the query result, json[n] the node enclosing n
    tpc,        \* ConvertToPage: where the frame of each node is
    tPage,      \* ConvertToPage: the Page built for each node
    tIdx,       \* ConvertToPage: children already handed to a goroutine
    wg,         \* ConvertToPage: each frame's WaitGroup counter
    closer,     \* ConvertToPage: the wait-then-close goroutine of each frame
    panicked,   \* ConvertToPage: a send on a closed channel happened
    norm,       \* a call of a function of the URL normalizer, and its result
    fetch       \* a call of FetchChildPages: its position and its locals

storeVars == <<nodes, edges, proc, inserts, faulty>>
treeVars == <<json, tpc, tPage, tIdx, wg, closer, panicked>>
pageVars == <<norm, fetch>>
vars == <<storeVars, treeVars, pageVars>>

\* ------------------------------------------------------------ the callers

\* What a call has returned: nothing yet.
NoReturn == [returned |-> FALSE, uid |-> EmptyUid, err |-> NilErr]

\* A caller before its Create call. The fields are the locals of Create,
\* FindOrCreateNode and CheckOrCreatePredicate:
\*   pc        where the caller is
\*   page      the page given to Create (Url, and Parent's url)
\*   stage     which FindOrCreateNode call of Create runs: "self" or "parent"
\*   uid, err  the named results of the running function
\*   assigned  assigned.Uids["blank-0"] of the open transaction
\*   attempts  CheckOrCreatePredicate's attempts
\*   txnWrote  the open transaction holds a mutation
\*   txnStale  a conflicting transaction committed after this one started
\*   pageUid   the Uid fields of currentPage and of currentPage.Parent
\*   curUid, parUid   Create's currentUid and parentUid
\*   result    the error Create returned
\*   fonTxns, copTxns   transactions the running call has opened
\*   copFails  attempts of the running call whose insert failed
\*   lastFail  the error of the call's latest attempt (NilErr: none)
\*   fonRet, copRet    what the calls made by Create returned
\*   txnOpen   the transaction of the running call is not discarded
\*   leaked    a call returned without discarding its transaction
IdleProc ==
    [ pc |-> "idle", page |-> [Url |-> "", Parent |-> NoParent], stage |-> "self",
      uid |-> EmptyUid, err |-> NilErr, assigned |-> EmptyUid, attempts |-> 0,
      txnWrote |-> FALSE, txnStale |-> FALSE,
      pageUid |-> [self |-> EmptyUid, parent |-> EmptyUid],
      curUid |-> EmptyUid, parUid |-> EmptyUid, result |-> NilErr,
      fonTxns |-> 0, copTxns |-> 0, copFails |-> 0, lastFail |-> NilErr,
      fonRet |-> [self |-> NoReturn, parent |-> NoReturn],
      copRet |-> NoReturn, txnOpen |-> FALSE, leaked |-> FALSE ]

\* The url the running FindOrCreateNode call looks up: currentPage.Url.
FonUrl(q) == IF q.stage = "self" THEN q.page.Url ELSE q.page.Parent

\* ---------------------------------------------------- the graph database

Max(S) == CHOOSE x \in S : \A y \in S : y <= x

\* Every uid the store or a caller holds.
UsedUids ==
    {EmptyUid} \cup {n.uid : n \in nodes}
    \cup UNION { { proc[p].uid, proc[p].assigned, proc[p].curUid, proc[p].parUid,
                   proc[p].pageUid.self, proc[p].pageUid.parent,
                   proc[p].fonRet.self.uid, proc[p].fonRet.parent.uid } : p \in Procs }

\* The uid the database mints for a blank node: one nobody holds.
FreshUid == Max(UsedUids) + 1

\* What the open transaction of caller q writes, if it commits: the url index
\* key (url is @index(exact) @upsert) or the links edge.
TxnKey(q) ==
    IF q.pc \in {"fon_mutate", "fon_commit"} THEN [kind |-> "url", url |-> FonUrl(q)]
    ELSE IF q.pc \in {"cop_mutate", "cop_commit"}
         THEN [kind |-> "links", parent |-> q.parUid, child |-> q.curUid]
         ELSE [kind |-> "none"]

SameKey(k1, k2) ==
    /\ k1.kind = k2.kind
    /\ k1.kind # "none"
    /\ IF k1.kind = "url" THEN k1.url = k2.url
       ELSE k1.parent = k2.parent /\ k1.child = k2.child

\* Schema without @upsert on url: commits of the same url never conflict.
SchemaNoUpsert(key) == key.kind = "links"

\* SetSchema: the keys whose concurrent writers conflict at commit. The url
\* index is declared @upsert, so two transactions writing the same url
\* conflict; so do two transactions writing the same links edge.
SetSchema(key) == key.kind \in {"url", "links"}

\* txn.Commit of caller p's transaction goes through: it holds a mutation and
\* no conflicting transaction committed since it started.
CanCommit(p) ==
    /\ proc[p].txnWrote
    /\ ~(proc[p].txnStale /\ SetSchema(TxnKey(proc[p])))

\* The callers after caller p, now in state np, committed its mutation: the
\* open transactions that wrote or will write the same key are stale.
Committed(p, np) ==
    [q \in Procs |->
        IF q = p THEN np
        ELSE IF SameKey(TxnKey(proc[q]), TxnKey(proc[p]))
             THEN [proc[q] EXCEPT !.txnStale = TRUE]
             ELSE proc[q]]

\* The callers after caller p moved to state np without committing anything.
Moved(p, np) == [proc EXCEPT ![p] = np]

\* A transaction as store.NewTxn() returns it.
NewTxn(q) ==
    [q EXCEPT !.txnWrote = FALSE, !.txnStale = FALSE, !.assigned = EmptyUid,
              !.txnOpen = TRUE]

\* txn.Discard(ctx)
Discard(q) == [q EXCEPT !.txnWrote = FALSE, !.txnStale = FALSE, !.txnOpen = FALSE]

\* ------------------------------------------------------------------ Create

\* Create's handling of the error of CheckOrCreatePredicate: both branches
\* end in a bare return of the named result err.
CreateResult(e) ==
    IF e # NilErr
    THEN IF /\ ~Contains(e, "Transaction has been aborted. Please retry.")
            /\ ~Contains(e, "Transaction is too old")
         THEN e
         ELSE e
    ELSE e

\* The locals of a function that returned are gone; its transaction, if it
\* was not discarded, is left open.
Returned(q) ==
    [q EXCEPT !.uid = EmptyUid, !.err = NilErr, !.assigned = EmptyUid,
              !.txnWrote = FALSE, !.txnStale = FALSE,
              !.leaked = @ \/ q.txnOpen, !.txnOpen = FALSE]

\* Create goes on to its next step whatever FindOrCreateNode returned.
NeverAborts(e) == FALSE

\* if err != nil { return } after a FindOrCreateNode call
Aborts(e) == e # NilErr

\* Create after its running FindOrCreateNode call returned (u, e): it returns
\* e, or goes on to the parent's node and then to the edge.
FonReturn(q, u, e) ==
    LET r == [Returned(q) EXCEPT
                !.fonRet[q.stage] =
                    [returned |-> TRUE, uid |-> u, err |-> e]]
    IN  IF q.stage = "self"
        THEN LET c == [r EXCEPT !.curUid = u]
             IN  IF Aborts(e) \/ q.page.Parent = NoParent
                 THEN [c EXCEPT !.pc = "done", !.result = e]
                 ELSE [c EXCEPT !.pc = "fon_find", !.stage = "parent",
                                !.fonTxns = 0]
        ELSE LET c == [r EXCEPT !.parUid = u]
             IN  IF Aborts(e)
                 THEN [c EXCEPT !.pc = "done", !.result = e]
                 ELSE [c EXCEPT !.pc = "cop_check", !.attempts = Attempts,
                                !.copTxns = 0, !.copFails = 0,
                                !.lastFail = NilErr]

\* Create after CheckOrCreatePredicate returned e.
CopReturn(q, e) ==
    [Returned(q) EXCEPT
        !.copRet = [returned |-> TRUE, uid |-> EmptyUid, err |-> e],
        !.pc = "done", !.result = CreateResult(e)]

\* A caller calls Create(pg): the first FindOrCreateNode call starts.
Create(p, pg) ==
    /\ proc[p].pc = "idle"
    /\ proc' = Moved(p, [proc[p] EXCEPT !.pc = "fon_find", !.page = pg,
                                        !.stage = "self"])
    /\ UNCHANGED <<nodes, edges, inserts, faulty, treeVars, pageVars>>

\* -------------------------------------------------------- FindOrCreateNode

\* resultPage == nil
NilPage == [uid |-> EmptyUid, url |-> "nil"]

RECURSIVE SortByUid(_)
SortByUid(S) ==
    IF S = {} THEN <<>>
    ELSE LET m == CHOOSE x \in S : \A y \in S : x.uid <= y.uid
         IN  <<m>> \o SortByUid(S \ {m})

\* The "result" list of FindNode's query: the nodes whose url is the one asked.
QueryByUrl(url) == SortByUid({n \in nodes : n.url = url})

\* DeserializePage: the first result, or no page.
DeserializePage(resp) == IF Len(resp) > 0 THEN resp[1] ELSE NilPage

\* The node found is ignored.
FoundUidIgnored(resultPage, u) == u

\* The uid after FindNode: the uid of the node found.
FoundUid(resultPage, u) == IF resultPage # NilPage THEN resultPage.uid ELSE u

\* currentPage.Uid is left as it was.
PageUidUnset(old, u) == old

\* currentPage.Uid after the commit: set when the uid is not empty.
PageUid(old, u) == IF u # EmptyUid THEN u ELSE old

\* The uid after the commit returned e.
CommitUid(q, e) == IF q.uid = EmptyUid /\ e = NilErr THEN q.assigned ELSE q.uid

\* The count of transactions opened, which stops one above MaxFonTxns.
CountTxn(n) == IF n <= MaxFonTxns THEN n + 1 ELSE n

\* The end of an iteration, after txn.Commit returned e: the transaction is
\* discarded, the uid taken, currentPage.Uid set; the loop goes on while the
\* uid is empty.
FonAfterCommit(q, e) ==
    LET u == CommitUid(q, e)
        r == [Discard(q) EXCEPT !.uid = u, !.err = e,
                                !.pageUid[q.stage] = PageUid(@, u)]
    IN  IF u = EmptyUid THEN [r EXCEPT !.pc = "fon_find"] ELSE FonReturn(r, u, e)

\* store.NewTxn() and FindNode, which answers.
FonFind(p) ==
    /\ proc[p].pc = "fon_find"
    /\ LET q == NewTxn(proc[p])
           resultPage == DeserializePage(QueryByUrl(FonUrl(q)))
           u == FoundUid(resultPage, q.uid)
       IN  proc' = Moved(p, [q EXCEPT !.fonTxns = CountTxn(@), !.err = NilErr,
                                      !.uid = u,
                                      !.pc = IF u = EmptyUid THEN "fon_mutate"
                                                             ELSE "fon_commit"])
    /\ UNCHANGED <<nodes, edges, inserts, faulty, treeVars, pageVars>>

\* store.NewTxn() and FindNode, whose query (or its decoding) fails with e:
\* FindOrCreateNode returns e.
FonFindFail(p, e) ==
    /\ p \in faulty
    /\ proc[p].pc = "fon_find"
    /\ LET q == [NewTxn(proc[p]) EXCEPT !.fonTxns = CountTxn(@)]
       IN  proc' = Moved(p, FonReturn(q, q.uid, e))
    /\ UNCHANGED <<nodes, edges, inserts, faulty, treeVars, pageVars>>

\* txn.Mutate of the serialized page: the database mints a uid.
FonMutate(p) ==
    /\ proc[p].pc = "fon_mutate"
    /\ proc' = Moved(p, [proc[p] EXCEPT !.assigned = FreshUid, !.txnWrote = TRUE,
                                        !.pc = "fon_commit"])
    /\ UNCHANGED <<nodes, edges, inserts, faulty, treeVars, pageVars>>

\* txn.Mutate fails with e, and dgo discards the transaction of a mutation
\* that failed: FindOrCreateNode returns e.
FonMutateFail(p, e) ==
    /\ p \in faulty
    /\ proc[p].pc = "fon_mutate"
    /\ proc' = Moved(p, FonReturn(Discard(proc[p]), proc[p].uid, e))
    /\ UNCHANGED <<nodes, edges, inserts, faulty, treeVars, pageVars>>

\* dgo's error of a commit that lost a conflict.
ErrConflict == <<"Transaction has been aborted. Please retry">>

\* txn.Commit, decided by the database: the new node is committed, or the
\* transaction lost a conflict, or it held no mutation.
FonCommit(p) ==
    /\ proc[p].pc = "fon_commit"
    /\ IF CanCommit(p)
       THEN /\ nodes' = nodes \cup {[uid |-> proc[p].assigned, url |-> FonUrl(proc[p])]}
            /\ proc' = Committed(p, FonAfterCommit(proc[p], NilErr))
       ELSE /\ nodes' = nodes
            /\ proc' = Moved(p, FonAfterCommit(proc[p],
                                    IF proc[p].txnWrote THEN ErrConflict ELSE NilErr))
    /\ UNCHANGED <<edges, inserts, faulty, treeVars, pageVars>>

\* txn.Commit of a mutation fails with e and commits nothing.
FonCommitFail(p, e) ==
    /\ p \in faulty
    /\ proc[p].pc = "fon_commit"
    /\ proc[p].txnWrote
    /\ proc' = Moved(p, FonAfterCommit(proc[p], e))
    /\ UNCHANGED <<nodes, edges, inserts, faulty, treeVars, pageVars>>

\* txn.Commit commits the node and its answer is lost: the call returns e.
FonCommitLost(p, e) ==
    /\ p \in faulty
    /\ proc[p].pc = "fon_commit"
    /\ CanCommit(p)
    /\ nodes' = nodes \cup {[uid |-> proc[p].assigned, url |-> FonUrl(proc[p])]}
    /\ proc' = Committed(p, FonAfterCommit(proc[p], e))
    /\ UNCHANGED <<edges, inserts, faulty, treeVars, pageVars>>

\* -------------------------------------------------- CheckOrCreatePredicate

\* The "edges" list of CheckPredicate's query: for the parent, the count of
\* its links that go to the child; no entry for a parent without links.
QueryEdges(parentUid, childUid) ==
    IF \E e \in edges : e[1] = parentUid
    THEN <<[matching |-> Cardinality({e \in edges : e[1] = parentUid /\ e[2] = childUid})]>>
    ELSE <<>>

\* The count compared with one instead of zero.
DeserializePredicateOffByOne(resp) == IF Len(resp) > 0 THEN resp[1].matching > 1 ELSE FALSE

\* DeserializePredicate
DeserializePredicate(resp) == IF Len(resp) > 0 THEN resp[1].matching > 0 ELSE FALSE

\* The NQuad of the mutation: Subject parentUid, Predicate links, ObjectId childUid.
NQuad(parentUid, childUid) == <<parentUid, childUid>>

\* attempts is not decremented.
NoDecrement(n) == n

\* attempts--
Decrement(n) == n - 1

\* The loop condition after an iteration that found no edge (exists is
\* false): another attempt, or the return of err.
CopLoop(q) ==
    LET r == Discard(q)
    IN  IF q.attempts > 0 THEN [r EXCEPT !.pc = "cop_check"] ELSE CopReturn(r, q.err)

\* attempts--, store.NewTxn() and CheckPredicate, which answers: the call
\* returns when the edge exists.
CopCheck(p) ==
    /\ proc[p].pc = "cop_check"
    /\ LET q == [NewTxn(proc[p]) EXCEPT !.attempts = Decrement(@),
                                        !.copTxns = @ + 1, !.err = NilErr]
           exists == DeserializePredicate(QueryEdges(q.parUid, q.curUid))
       IN  proc' = Moved(p, IF exists THEN CopReturn(q, NilErr)
                                      ELSE [q EXCEPT !.pc = "cop_mutate"])
    /\ UNCHANGED <<nodes, edges, inserts, faulty, treeVars, pageVars>>

\* CheckPredicate fails with e: CheckOrCreatePredicate returns e.
CopCheckFail(p, e) ==
    /\ p \in faulty
    /\ proc[p].pc = "cop_check"
    /\ LET q == [NewTxn(proc[p]) EXCEPT !.attempts = Decrement(@),
                                        !.copTxns = @ + 1,
                                        !.copFails = @ + 1, !.lastFail = e]
       IN  proc' = Moved(p, CopReturn(q, e))
    /\ UNCHANGED <<nodes, edges, inserts, faulty, treeVars, pageVars>>

\* txn.Mutate of the edge succeeds.
CopMutate(p) ==
    /\ proc[p].pc = "cop_mutate"
    /\ proc' = Moved(p, [proc[p] EXCEPT !.txnWrote = TRUE, !.err = NilErr,
                                        !.pc = "cop_commit"])
    /\ UNCHANGED <<nodes, edges, inserts, faulty, treeVars, pageVars>>

\* txn.Mutate of the edge fails with e: on the last attempt the transaction
\* is discarded and e returned, otherwise the commit follows.
CopMutateFail(p, e) ==
    /\ p \in faulty
    /\ proc[p].pc = "cop_mutate"
    /\ LET q == [proc[p] EXCEPT !.err = e, !.copFails = @ + 1, !.lastFail = e]
       IN  proc' = Moved(p, IF q.attempts <= 0 THEN CopReturn(Discard(q), e)
                                               ELSE [q EXCEPT !.pc = "cop_commit"])
    /\ UNCHANGED <<nodes, edges, inserts, faulty, treeVars, pageVars>>

\* One more committed insertion of edge e.
Inserted(e) ==
    IF e \in DOMAIN inserts THEN [inserts EXCEPT ![e] = @ + 1] ELSE inserts @@ (e :> 1)

\* txn.Commit, decided by the database, its error dropped by the code: the
\* edge is committed, or the transaction lost a conflict, or its mutation had
\* failed. Then txn.Discard and the loop condition.
CopCommit(p) ==
    /\ proc[p].pc = "cop_commit"
    /\ LET q == proc[p]
           e == NQuad(q.parUid, q.curUid)
       IN  IF CanCommit(p)
           THEN /\ edges' = edges \cup {e}
                /\ inserts' = Inserted(e)
                /\ proc' = Committed(p, CopLoop([q EXCEPT !.lastFail = NilErr]))
           ELSE /\ edges' = edges
                /\ inserts' = inserts
                /\ proc' = Moved(p, CopLoop(IF q.txnWrote
                                            THEN [q EXCEPT !.copFails = @ + 1,
                                                           !.lastFail = ErrConflict]
                                            ELSE q))
    /\ UNCHANGED <<nodes, faulty, treeVars, pageVars>>

\* txn.Commit of the edge fails with e and commits nothing; the code drops e.
CopCommitFail(p, e) ==
    /\ p \in faulty
    /\ proc[p].pc = "cop_commit"
    /\ proc[p].txnWrote
    /\ proc' = Moved(p, CopLoop([proc[p] EXCEPT !.copFails = @ + 1, !.lastFail = e]))
    /\ UNCHANGED <<nodes, edges, inserts, faulty, treeVars, pageVars>>

\* ------------------------------------------------------ the specifications

TreeIdle ==
    /\ json = <<>>
    /\ tpc = <<>>
    /\ tPage = <<>>
    /\ tIdx = <<>>
    /\ wg = <<>>
    /\ closer = <<>>
    /\ panicked = FALSE

\* No URL: the nil *url.URL.
NilUrl == [nil |-> TRUE]

\* No call of the URL normalizer.
UrlIdle ==
    [ call |-> "none", root |-> <<>>, href |-> <<>>, bool |-> FALSE, abs |-> NilUrl ]

\* No call of FetchChildPages. The fields are its locals:
\*   pc           where the call is
\*   page         the receiver: Url and Depth
\*   getErr       the error of http.Get
\*   contentType  resp.Header.Get("Content-Type")
\*   parsed       parseHtml was called
\*   closed       resp.Body was closed
\*   anchors      the a elements Each has visited
\*   localProcessed, childPages, err   as in the code; a child carries in
\*                From the position of the a element it was built from
FetchIdle ==
    [ pc |-> "idle", page |-> [Url |-> <<>>, Depth |-> 0], getErr |-> NilErr,
      contentType |-> <<>>, parsed |-> FALSE, closed |-> FALSE, anchors |-> <<>>,
      localProcessed |-> {}, childPages |-> <<>>, err |-> NilErr ]

PageIdle ==
    /\ norm = UrlIdle
    /\ fetch = FetchIdle

StoreEmpty ==
    /\ nodes = {}
    /\ edges = {}
    /\ proc = [p \in Procs |-> IdleProc]
    /\ inserts = <<>>

Init ==
    /\ StoreEmpty
    /\ faulty \in {S \in SUBSET Procs : Cardinality(S) <= MaxFaulty}
    /\ TreeIdle
    /\ PageIdle

InitOCC ==
    /\ StoreEmpty
    /\ faulty = {}
    /\ TreeIdle
    /\ PageIdle

\* The steps of the callers against a database that fails a commit only on a
\* conflict.
NextOCC ==
    \E p \in Procs :
        \/ \E pg \in Pages : Create(p, pg)
        \/ FonFind(p)
        \/ FonMutate(p)
        \/ FonCommit(p)
        \/ CopCheck(p)
        \/ CopMutate(p)
        \/ CopCommit(p)

\* The failures of the database and of the transport.
NextFault ==
    \/ \E p \in Procs, e \in StoreErrors :
        \/ FonFindFail(p, e)
        \/ FonMutateFail(p, e)
        \/ FonCommitFail(p, e)
        \/ CopCheckFail(p, e)
        \/ CopMutateFail(p, e)
        \/ CopCommitFail(p, e)
    \/ \E p \in Procs : FonCommitLost(p, ErrUnavailable)

Next == NextOCC \/ NextFault

\* Concurrent callers of Create against a database and a transport that can
\* fail any query, mutation or commit.
Spec == Init /\ [][Next]_vars

\* Concurrent callers of Create against a database whose commits fail only
\* on optimistic-concurrency conflicts.
SpecOCC == InitOCC /\ [][NextOCC]_vars

\* ------------------------------------------------------------ ConvertToPage

\* The query result is a tree of JsonPages numbered from the root, 1:
\* json[n] is the node whose Children holds n, NilPageRef for the root. A
\* Page is named by the number of the node it was built for.
NilPageRef == 0

TreeNodes == DOMAIN json

\* jsonPage.Children of node n, in the order of the array.
RECURSIVE KidsFrom(_, _)
KidsFrom(n, m) ==
    IF m > Len(json) THEN <<>>
    ELSE IF json[m] = n THEN <<m>> \o KidsFrom(n, m + 1)
    ELSE KidsFrom(n, m + 1)

Kids(n) == KidsFrom(n, 1)

\* The Url field of node n.
JsonUrl(n) == IF n % 2 = 1 THEN "a" ELSE "b"

\* The Page of ConvertToPage(parentPage, jsonPage): the fields copied and
\* the back-reference set for a parent that is not nil.
NewPage(parentPage, n) ==
    [ Uid |-> n, Url |-> JsonUrl(n),
      Parent |-> IF parentPage # NilPageRef THEN parentPage ELSE NilPageRef,
      Children |-> <<>> ]

\* The child received replaces the children collected so far.
AppendOverwrite(children, childPage) == <<childPage>>

\* currentPage.Children = append(currentPage.Children, childPages)
AppendChild(children, childPage) == Append(children, childPage)

\* ConvertToPage(parentPage, jsonPage) starts for node n: the Page is built.
Enter(n) ==
    /\ n \in TreeNodes
    /\ tpc[n] = "call"
    /\ tPage' = [tPage EXCEPT ![n] = NewPage(json[n], n)]
    /\ tpc' = [tpc EXCEPT ![n] = "spawn"]
    /\ UNCHANGED <<json, tIdx, wg, closer, panicked, storeVars, pageVars>>

\* One turn of the loop over jsonPage.Children: wg.Add(1) and a goroutine
\* that converts the child.
Go(n) ==
    /\ n \in TreeNodes
    /\ tpc[n] = "spawn"
    /\ tIdx[n] < Len(Kids(n))
    /\ wg' = [wg EXCEPT ![n] = @ + 1]
    /\ tIdx' = [tIdx EXCEPT ![n] = @ + 1]
    /\ tpc' = [tpc EXCEPT ![Kids(n)[tIdx[n] + 1]] = "call"]
    /\ UNCHANGED <<json, tPage, closer, panicked, storeVars, pageVars>>

\* After the loop: the goroutine that waits and closes is started, and the
\* frame goes on to range over the channel.
GoCloser(n) ==
    /\ n \in TreeNodes
    /\ tpc[n] = "spawn"
    /\ tIdx[n] = Len(Kids(n))
    /\ closer' = [closer EXCEPT ![n] = "waiting"]
    /\ tpc' = [tpc EXCEPT ![n] = "range"]
    /\ UNCHANGED <<json, tPage, tIdx, wg, panicked, storeVars, pageVars>>

\* wg.Wait() returns although one goroutine has not called wg.Done().
WaitReturnsEarly(counter) == counter <= 1

\* wg.Wait() blocks until the counter of the WaitGroup is zero.
WaitReturns(counter) == counter = 0

\* wg.Wait() returns and the channel is closed.
Close(n) ==
    /\ n \in TreeNodes
    /\ closer[n] = "waiting"
    /\ WaitReturns(wg[n])
    /\ closer' = [closer EXCEPT ![n] = "closed"]
    /\ UNCHANGED <<json, tpc, tPage, tIdx, wg, panicked, storeVars, pageVars>>

\* convertPagesChan <- childPage by the goroutine of child c, met by the
\* receive of the parent's range loop, which appends the child; a send on a
\* closed channel panics.
Send(c) ==
    /\ c \in TreeNodes
    /\ tpc[c] = "send"
    /\ IF closer[json[c]] = "closed"
       THEN /\ panicked' = TRUE
            /\ tpc' = [tpc EXCEPT ![c] = "panic"]
            /\ tPage' = tPage
       ELSE /\ tpc[json[c]] = "range"
            /\ tPage' = [tPage EXCEPT ![json[c]].Children = AppendChild(@, c)]
            /\ tpc' = [tpc EXCEPT ![c] = "sent"]
            /\ panicked' = panicked
    /\ UNCHANGED <<json, tIdx, wg, closer, storeVars, pageVars>>

\* The deferred wg.Done() of the goroutine of child c.
Done(c) ==
    /\ c \in TreeNodes
    /\ tpc[c] = "sent"
    /\ wg' = [wg EXCEPT ![json[c]] = @ - 1]
    /\ tpc' = [tpc EXCEPT ![c] = "end"]
    /\ UNCHANGED <<json, tPage, tIdx, closer, panicked, storeVars, pageVars>>

\* The range loop ends on the closed channel and ConvertToPage returns: to
\* the goroutine that sends the Page, or to the caller of the root.
Return(n) ==
    /\ n \in TreeNodes
    /\ tpc[n] = "range"
    /\ closer[n] = "closed"
    /\ tpc' = [tpc EXCEPT ![n] = IF json[n] = NilPageRef THEN "returned" ELSE "send"]
    /\ UNCHANGED <<json, tPage, tIdx, wg, closer, panicked, storeVars, pageVars>>

\* The nested query results of k nodes: every node but the root is a child
\* of an earlier node.
JsonTrees(k) ==
    {t \in [1..k -> 0..k] : /\ t[1] = NilPageRef
                            /\ \A n \in 2..k : t[n] \in 1..(n - 1)}

\* DeserializePage calls ConvertToPage(nil, &jsonPages[0]).
InitTree ==
    /\ StoreEmpty
    /\ faulty = {}
    /\ \E k \in 1..MaxTreeNodes :
        /\ json \in JsonTrees(k)
        /\ tpc = [n \in 1..k |-> IF n = 1 THEN "call" ELSE "none"]
        /\ tPage = [n \in 1..k |-> NewPage(NilPageRef, 0)]
        /\ tIdx = [n \in 1..k |-> 0]
        /\ wg = [n \in 1..k |-> 0]
        /\ closer = [n \in 1..k |-> "none"]
    /\ panicked = FALSE
    /\ PageIdle

NextTree ==
    \E n \in 1..MaxTreeNodes :
        \/ Enter(n)
        \/ Go(n)
        \/ GoCloser(n)
        \/ Close(n)
        \/ Send(n)
        \/ Done(n)
        \/ Return(n)

\* One ConvertToPage call on a nested query result, its goroutines scheduled
\* in any order.
SpecTree == InitTree /\ [][NextTree]_vars

\* The same call under the Go scheduler, which runs a goroutine that can
\* take a step.
SpecTreeLive == InitTree /\ [][NextTree]_vars /\ WF_vars(NextTree)

\* ------------------------------------------------------------------ strings

\* A string of the page package is the sequence of its characters, a run of
\* letters or digits that no function here splits written as one element:
\* "http://example.edu" is <<"http", ":", "/", "/", "example", ".", "edu">>.
Punctuation == {":", "/", ".", "#", "?", "%", ";", "=", "-", "+", " "}

\* Runs of digits, and runs of letters and digits that begin with a letter.
DigitRuns == {"9", "8"}
MixedRuns == {"jg380gj39v"}

\* [a-zA-Z]+ and [a-zA-Z0-9]+
IsLetters(c) == c \notin Punctuation \cup DigitRuns \cup MixedRuns
IsAlnum(c) == c \notin Punctuation

\* strings.ToLower of a run.
ToLower(c) ==
    IF c = "HTTP" THEN "http"
    ELSE IF c = "EXAMPLE" THEN "example"
    ELSE IF c = "EDU" THEN "edu"
    ELSE IF c = "Z" THEN "z"
    ELSE c

Take(s, k) == SubSeq(s, 1, k)
Drop(s, k) == SubSeq(s, k + 1, Len(s))

\* strings.Index, counted from 1: 0 when c is not in s.
RECURSIVE IndexFrom(_, _, _)
IndexFrom(s, c, i) ==
    IF i > Len(s) THEN 0
    ELSE IF s[i] = c THEN i
    ELSE IndexFrom(s, c, i + 1)

Index(s, c) == IndexFrom(s, c, 1)

\* strings.LastIndex, counted from 1.
RECURSIVE LastIndexFrom(_, _, _)
LastIndexFrom(s, c, i) ==
    IF i < 1 THEN 0
    ELSE IF s[i] = c THEN i
    ELSE LastIndexFrom(s, c, i - 1)

LastIndex(s, c) == LastIndexFrom(s, c, Len(s))

\* strings.HasPrefix and strings.HasSuffix
HasPrefix(s, prefix) == Len(s) >= Len(prefix) /\ Take(s, Len(prefix)) = prefix
HasSuffix(s, suffix) == Len(s) >= Len(suffix) /\ Drop(s, Len(s) - Len(suffix)) = suffix

\* strings.TrimRight(s, c)
RECURSIVE TrimRight(_, _)
TrimRight(s, c) ==
    IF s # <<>> /\ s[Len(s)] = c THEN TrimRight(Take(s, Len(s) - 1), c) ELSE s

\* The length of the longest prefix of s whose elements are letters.
RECURSIVE LettersPrefix(_)
LettersPrefix(s) ==
    IF s # <<>> /\ IsLetters(Head(s)) THEN 1 + LettersPrefix(Tail(s)) ELSE 0

\* The length of the longest suffix of s whose elements are letters or digits.
RECURSIVE AlnumSuffix(_)
AlnumSuffix(s) ==
    IF s # <<>> /\ IsAlnum(s[Len(s)]) THEN 1 + AlnumSuffix(Take(s, Len(s) - 1)) ELSE 0

\* --------------------------------------------------------------- path.Clean

\* The elements of a path between its slashes.
RECURSIVE Split(_)
Split(s) ==
    LET i == Index(s, "/")
    IN  IF i = 0 THEN <<s>> ELSE <<Take(s, i - 1)>> \o Split(Drop(s, i))

\* The elements path.Clean keeps of a rooted path: an empty element and "."
\* are dropped, ".." drops the element before it and itself.
RECURSIVE CleanStack(_, _)
CleanStack(segs, kept) ==
    IF segs = <<>> THEN kept
    ELSE IF Head(segs) = <<>> \/ Head(segs) = <<".">>
         THEN CleanStack(Tail(segs), kept)
    ELSE IF Head(segs) = <<".", ".">>
         THEN CleanStack(Tail(segs),
                         IF kept = <<>> THEN kept ELSE Take(kept, Len(kept) - 1))
    ELSE CleanStack(Tail(segs), Append(kept, Head(segs)))

RECURSIVE Join(_)
Join(segs) == IF segs = <<>> THEN <<>> ELSE <<"/">> \o Head(segs) \o Join(Tail(segs))

\* path.Clean of a rooted path.
Clean(p) ==
    LET kept == CleanStack(Split(p), <<>>)
    IN  IF kept = <<>> THEN <<"/">> ELSE Join(kept)

\* ---------------------------------------------------------------- net/url

\* The hexadecimal digits among the elements.
HexDigits == DigitRuns

\* A percent sign that two hexadecimal digits do not follow: url.Parse
\* fails on it with an EscapeError.
BadEscape(s) ==
    \E i \in 1..Len(s) :
        /\ s[i] = "%"
        /\ ~(i + 2 <= Len(s) /\ s[i + 1] \in HexDigits /\ s[i + 2] \in HexDigits)

\* getScheme of net/url: the scheme before the first colon and the rest, no
\* scheme when some other character comes first, an error for a colon at the
\* start.
RECURSIVE GetSchemeFrom(_, _)
GetSchemeFrom(s, i) ==
    IF i > Len(s) THEN [err |-> FALSE, scheme |-> <<>>, rest |-> s]
    ELSE IF IsLetters(s[i]) \/ s[i] \in MixedRuns THEN GetSchemeFrom(s, i + 1)
    ELSE IF s[i] \in DigitRuns \cup {"+", "-", "."}
         THEN IF i = 1 THEN [err |-> FALSE, scheme |-> <<>>, rest |-> s]
              ELSE GetSchemeFrom(s, i + 1)
    ELSE IF s[i] = ":"
         THEN IF i = 1 THEN [err |-> TRUE, scheme |-> <<>>, rest |-> s]
              ELSE [err |-> FALSE, scheme |-> Take(s, i - 1), rest |-> Drop(s, i)]
    ELSE [err |-> FALSE, scheme |-> <<>>, rest |-> s]

GetScheme(s) == GetSchemeFrom(s, 1)

\* The host of an authority is valid: its escapes are, and what follows its
\* last colon is a port of digits.
ValidHost(host) ==
    /\ ~BadEscape(host)
    /\ LET i == LastIndex(host, ":")
       IN  i # 0 => \A j \in (i + 1)..Len(host) : host[j] \in DigitRuns

\* url.Parse(rawurl): the fragment is cut at the first '#', the scheme taken
\* and lowered, the query cut at the first '?', the authority read after
\* "//" up to the next slash, and the rest is the path.
ParseUrl(rawurl) ==
    LET h == Index(rawurl, "#")
        u == IF h = 0 THEN rawurl ELSE Take(rawurl, h - 1)
        frag == IF h = 0 THEN <<>> ELSE Drop(rawurl, h)
        sch == GetScheme(u)
        scheme == [i \in 1..Len(sch.scheme) |-> ToLower(sch.scheme[i])]
        qm == Index(sch.rest, "?")
        rest == IF qm = 0 THEN sch.rest ELSE Take(sch.rest, qm - 1)
        query == IF qm = 0 THEN <<>> ELSE Drop(sch.rest, qm)
        hasAuthority ==
            /\ HasPrefix(rest, <<"/", "/">>)
            /\ (scheme # <<>> \/ ~HasPrefix(rest, <<"/", "/", "/">>))
        authority == Drop(rest, 2)
        e == Index(authority, "/")
        host == IF ~hasAuthority THEN <<>>
                ELSE IF e = 0 THEN authority ELSE Take(authority, e - 1)
        path == IF ~hasAuthority THEN rest
                ELSE IF e = 0 THEN <<>> ELSE Drop(authority, e - 1)
    IN  IF sch.err THEN NilUrl
        ELSE IF ~HasPrefix(rest, <<"/">>) /\ scheme # <<>>
             THEN IF BadEscape(frag) THEN NilUrl
                  ELSE [Scheme |-> scheme, Opaque |-> rest, Host |-> <<>>,
                        Path |-> <<>>, RawQuery |-> query, Fragment |-> frag]
        ELSE IF ~HasPrefix(rest, <<"/">>) /\ Index(Head(Split(rest)), ":") # 0
             THEN NilUrl
        ELSE IF ~ValidHost(host) \/ BadEscape(path) \/ BadEscape(frag)
             THEN NilUrl
        ELSE [Scheme |-> scheme, Opaque |-> <<>>, Host |-> host,
              Path |-> path, RawQuery |-> query, Fragment |-> frag]

\* (*url.URL).String()
UrlString(u) ==
    (IF u.Scheme # <<>> THEN u.Scheme \o <<":">> ELSE <<>>)
    \o (IF u.Opaque # <<>> THEN u.Opaque
        ELSE (IF (u.Scheme # <<>> \/ u.Host # <<>>) /\ (u.Host # <<>> \/ u.Path # <<>>)
              THEN <<"/", "/">> \o u.Host ELSE <<>>)
             \o (IF u.Path # <<>> /\ Head(u.Path) # "/" /\ u.Host # <<>>
                 THEN <<"/">> ELSE <<>>)
             \o u.Path)
    \o (IF u.RawQuery # <<>> THEN <<"?">> \o u.RawQuery ELSE <<>>)
    \o (IF u.Fragment # <<>> THEN <<"#">> \o u.Fragment ELSE <<>>)

\* ------------------------------------------------------- the URL normalizer

\* The pattern without the '?': a scheme is required.
MatchSchemeRequired(href) ==
    LET k == LettersPrefix(href)
    IN  k >= 1 /\ HasPrefix(Drop(href, k), <<":", "/", "/">>)

\* regexp.MatchString("^(?:[a-zA-Z]+:)?//", href)
MatchSchemeSlashes(href) ==
    LET k == LettersPrefix(href)
    IN  \/ HasPrefix(href, <<"/", "/">>)
        \/ k >= 1 /\ HasPrefix(Drop(href, k), <<":", "/", "/">>)

IsRelativeUrl(href) == ~MatchSchemeSlashes(href)

\* regexp.MatchString(`(\.html$)`, href), and otherwise no match of
\* `(\.[a-zA-Z0-9]+$)`.
IsRelativeHtml(href) ==
    IF HasSuffix(href, <<".", "html">>) THEN TRUE
    ELSE LET m == AlnumSuffix(href)
         IN  ~(m >= 1 /\ Len(href) > m /\ href[Len(href) - m] = ".")

ParseRelativeUrl(rootUrl, relativeUrl) ==
    LET parsedRootUrl == ParseUrl(rootUrl)
    IN  IF parsedRootUrl = NilUrl THEN NilUrl
        ELSE LET absoluteUrl ==
                     ParseUrl(parsedRootUrl.Scheme \o <<":", "/", "/">>
                              \o parsedRootUrl.Host
                              \o Clean(<<"/">> \o relativeUrl))
             IN  IF absoluteUrl = NilUrl THEN NilUrl
                 ELSE [absoluteUrl EXCEPT !.Fragment = <<>>]

\* The urls and the links of the tests of the package.
HttpExampleEdu == <<"http", ":", "/", "/", "example", ".", "edu">>
HttpExampleEduUpper == <<"HTTP", ":", "/", "/", "EXAMPLE", ".", "EDU">>
HttpsExmapleCom == <<"https", ":", "/", "/", "www", ".", "exmaple", ".", "com">>
FtpFile == <<"ftp", ":", "/", "/", "example", ".", "edu", "/", "file", ".", "txt">>
CdnLib == <<"/", "/", "cdn", ".", "example", ".", "edu", "/", "lib", ".", "js">>
MyfolderTestTxt == <<"/", "myfolder", "/", "test", ".", "txt">>
MyfolderTest == <<"/", "myfolder", "/", "test">>
Test == <<"test">>
TestSlash == <<"test", "/">>
TestFragment == <<"test", "#", "jg380gj39v">>

FetchUrlTests ==
    {HttpExampleEdu, HttpExampleEduUpper, HttpsExmapleCom, FtpFile, CdnLib,
     MyfolderTestTxt, Test}

RelativeUrlTests == FetchUrlTests

\* The urls of the pages, which FetchChildPages passes as rootUrl.
RootUrls == FetchUrlTests

ParseUrlTests == {MyfolderTest, Test, TestSlash, TestFragment}

\* Every string of at most n elements of A.
RECURSIVE StringsUpTo(_, _)
StringsUpTo(A, n) ==
    IF n = 0 THEN {<<>>}
    ELSE LET shorter == StringsUpTo(A, n - 1)
         IN  shorter \cup {Append(s, c) : s \in shorter, c \in A}

\* The links the functions are called with: the links of the tests, and
\* every string of at most MaxHrefLen elements of a scheme (letters, a
\* digit, ':' and '/') or of a path ('.', '/', '#', '?' and '%').
SchemeChars == {"x", "Z", "9", ":", "/"}
PathChars == {"x", ".", "/", "#", "?", "%"}

Hrefs ==
    RelativeUrlTests \cup ParseUrlTests
    \cup StringsUpTo(SchemeChars, MaxHrefLen) \cup StringsUpTo(PathChars, MaxHrefLen)

CallIsRelativeUrl ==
    /\ norm.call = "input"
    /\ norm' = [norm EXCEPT !.call = "IsRelativeUrl", !.bool = IsRelativeUrl(norm.href)]
    /\ UNCHANGED <<fetch, storeVars, treeVars>>

CallIsRelativeHtml ==
    /\ norm.call = "input"
    /\ norm' = [norm EXCEPT !.call = "IsRelativeHtml", !.bool = IsRelativeHtml(norm.href)]
    /\ UNCHANGED <<fetch, storeVars, treeVars>>

CallParseRelativeUrl ==
    /\ norm.call = "input"
    /\ norm' = [norm EXCEPT !.call = "ParseRelativeUrl",
                          !.abs = ParseRelativeUrl(norm.root, norm.href)]
    /\ UNCHANGED <<fetch, storeVars, treeVars>>

\* --------------------------------------------------------- FetchChildPages

\* The errors of http.Get and of reading the body.
ErrScheme == <<"Get: unsupported protocol scheme">>
ErrDial == <<"Get: dial tcp: no such host">>
ErrRead == <<"unexpected EOF">>

\* The Content-Type headers of the responses; none for a response without.
TextHtml == <<"text", "/", "html">>
TextHtmlUtf8 == <<"text", "/", "html", ";", " ", "charset", "=", "utf", "-", "8">>
TextPlain == <<"text", "/", "plain">>
ApplicationJson == <<"application", "/", "json">>
NoContentType == <<>>

ContentTypes == {TextHtml, TextHtmlUtf8, TextPlain, ApplicationJson, NoContentType}

\* The a elements of the documents: one without href, and the hrefs.
TestQuery == <<"test", "?", "q">>
PageHtml == <<"page", ".", "html">>
Percent == <<"%">>

Anchors ==
    {[ok |-> FALSE, href |-> <<>>]}
    \cup {[ok |-> TRUE, href |-> h] :
            h \in {<<>>, Test, TestSlash, TestFragment, TestQuery, PageHtml,
                   MyfolderTestTxt, HttpExampleEdu, Percent}}

Depths == {0, 2}

\* http.Get sends a request for an absolute http or https url with a host.
CanRequest(rawurl) ==
    LET u == ParseUrl(rawurl)
    IN  /\ u # NilUrl
        /\ u.Scheme \in {<<"http">>, <<"https">>}
        /\ u.Host # <<>>

\* The error of http.Get is not returned.
FetchErrDropped(e) == NilErr

\* if err != nil { return }: the named result err holds the error of http.Get.
FetchErr(e) == e

\* Any text type is taken for HTML.
IsText(contentType) == HasPrefix(contentType, <<"text">>)

\* strings.HasPrefix(resp.Header.Get("Content-Type"), "text/html")
IsHtml(contentType) == HasPrefix(contentType, <<"text", "/", "html">>)

\* http.Get(page.Url) answers with a response of Content-Type ct.
HttpGet(ct) ==
    /\ fetch.pc = "get"
    /\ CanRequest(fetch.page.Url)
    /\ fetch' = [fetch EXCEPT !.pc = "header", !.contentType = ct]
    /\ UNCHANGED <<norm, storeVars, treeVars>>

\* http.Get(page.Url) fails, on a url it cannot request or on the network:
\* FetchChildPages returns the error.
HttpGetFail ==
    /\ fetch.pc = "get"
    /\ LET e == IF CanRequest(fetch.page.Url) THEN ErrDial ELSE ErrScheme
       IN  fetch' = [fetch EXCEPT !.pc = "returned", !.getErr = e,
                                  !.err = FetchErr(e)]
    /\ UNCHANGED <<norm, storeVars, treeVars>>

\* The check of the Content-Type: a response that is not HTML ends the call,
\* and the deferred resp.Body.Close() runs.
CheckContentType ==
    /\ fetch.pc = "header"
    /\ fetch' = IF ~IsHtml(fetch.contentType)
                THEN [fetch EXCEPT !.pc = "returned", !.closed = TRUE]
                ELSE [fetch EXCEPT !.pc = "parse"]
    /\ UNCHANGED <<norm, storeVars, treeVars>>

\* parseHtml reads the document.
ParseHtml ==
    /\ fetch.pc = "parse"
    /\ fetch' = [fetch EXCEPT !.pc = "each", !.parsed = TRUE]
    /\ UNCHANGED <<norm, storeVars, treeVars>>

\* parseHtml fails to read the body: FetchChildPages returns the error.
ParseHtmlFail ==
    /\ fetch.pc = "parse"
    /\ fetch' = [fetch EXCEPT !.pc = "returned", !.parsed = TRUE,
                              !.err = ErrRead, !.closed = TRUE]
    /\ UNCHANGED <<norm, storeVars, treeVars>>

\* The callback of Each on the next a element of the document: a link that
\* passes the filter is resolved, and the Path of the result read; reading
\* it of a nil result is a nil pointer dereference, which panics.
Each(a) ==
    /\ fetch.pc = "each"
    /\ Len(fetch.anchors) < MaxAnchors
    /\ LET f == [fetch EXCEPT !.anchors = Append(@, a)]
           absoluteUrl == ParseRelativeUrl(f.page.Url, a.href)
       IN  fetch' =
             IF a.ok /\ IsRelativeUrl(a.href) /\ IsRelativeHtml(a.href) /\ a.href # <<>>
             THEN IF absoluteUrl = NilUrl
                  THEN [f EXCEPT !.pc = "panic", !.closed = TRUE]
                  ELSE IF absoluteUrl.Path \notin f.localProcessed
                       THEN [f EXCEPT
                               !.localProcessed = @ \cup {absoluteUrl.Path},
                               !.childPages =
                                   Append(@, [Url |-> TrimRight(UrlString(absoluteUrl), "/"),
                                              Depth |-> f.page.Depth - 1,
                                              From |-> Len(f.anchors)])]
                       ELSE f
             ELSE f
    /\ UNCHANGED <<norm, storeVars, treeVars>>

\* Each has visited every a element: FetchChildPages returns.
FetchReturn ==
    /\ fetch.pc = "each"
    /\ fetch' = [fetch EXCEPT !.pc = "returned", !.closed = TRUE]
    /\ UNCHANGED <<norm, storeVars, treeVars>>

\* One call of FetchChildPages on a page.
InitFetch ==
    /\ StoreEmpty
    /\ faulty = {}
    /\ TreeIdle
    /\ norm = UrlIdle
    /\ fetch \in {[FetchIdle EXCEPT !.pc = "get", !.page = [Url |-> u, Depth |-> d]] :
                    u \in FetchUrlTests, d \in Depths}

NextFetch ==
    \/ \E ct \in ContentTypes : HttpGet(ct)
    \/ HttpGetFail
    \/ CheckContentType
    \/ ParseHtml
    \/ ParseHtmlFail
    \/ \E a \in Anchors : Each(a)
    \/ FetchReturn

SpecFetch == InitFetch /\ [][NextFetch]_vars

\* One call of a function of the URL normalizer on a root url and a link.
InitUrl ==
    /\ StoreEmpty
    /\ faulty = {}
    /\ TreeIdle
    /\ norm \in {[UrlIdle EXCEPT !.call = "input", !.root = r, !.href = h] :
                    r \in RootUrls, h \in Hrefs}
    /\ fetch = FetchIdle

NextUrl ==
    \/ CallIsRelativeUrl
    \/ CallIsRelativeHtml
    \/ CallParseRelativeUrl

SpecUrl == InitUrl /\ [][NextUrl]_vars

\* ------------------------------------------------------------ the claims

Stages == {"self", "parent"}

\* The url of caller p's FindOrCreateNode call of stage s.
CallUrl(p, s) == IF s = "self" THEN proc[p].page.Url ELSE proc[p].page.Parent

\* Caller p's FindOrCreateNode call of stage s returned with no error.
FonOk(p, s) == proc[p].fonRet[s].returned /\ proc[p].fonRet[s].err = NilErr

NodesOf(url) == {n \in nodes : n.url = url}

\* An optimistic-concurrency conflict, as opposed to any other failure.
IsTransient(e) ==
    \/ e = ErrConflict
    \/ Contains(e, "Transaction has been aborted. Please retry.")
    \/ Contains(e, "Transaction is too old")

\* C1. Node uniqueness: at every moment the store holds at most one node per
\* url, and once a FindOrCreateNode call for a url has returned (so also once
\* all N callers of that url have), it holds exactly one node for that url.
NodeUniqueness ==
    /\ \A n1, n2 \in nodes : n1.url = n2.url => n1 = n2
    /\ \A p \in Procs, s \in Stages :
          proc[p].fonRet[s].returned => Cardinality(NodesOf(CallUrl(p, s))) = 1

\* Two callers of the same url have both returned, one of them after losing
\* the commit conflict and trying again.
NodeUniquenessWitness ==
    \E p, q \in Procs :
        /\ p # q
        /\ proc[p].pc = "done" /\ proc[q].pc = "done"
        /\ proc[p].page.Parent = NoParent /\ proc[q].page.Parent = NoParent
        /\ proc[p].page.Url = proc[q].page.Url
        /\ proc[p].fonTxns = 2

\* C2. Uid stability: all successful FindOrCreateNode calls for a url return
\* the same uid, and it is the uid of the node the store holds for that url:
\* no call mints a second uid for a url that has a node.
UidStability ==
    \A p \in Procs, s \in Stages :
        FonOk(p, s) =>
            /\ \A q \in Procs, t \in Stages :
                  FonOk(q, t) /\ CallUrl(q, t) = CallUrl(p, s)
                      => proc[q].fonRet[t].uid = proc[p].fonRet[s].uid
            /\ \A n \in NodesOf(CallUrl(p, s)) : n.uid = proc[p].fonRet[s].uid

\* Two callers got the uid of the same url, and one caller got the uid of
\* the same url twice in a row (a page whose parent has its own url).
UidStabilityWitness ==
    \E p, q \in Procs :
        /\ p # q
        /\ FonOk(p, "self") /\ FonOk(p, "parent") /\ FonOk(q, "self")
        /\ CallUrl(p, "self") = CallUrl(p, "parent")
        /\ CallUrl(q, "self") = CallUrl(p, "self")

\* C3. Edge uniqueness: no edge is ever inserted by two committed
\* transactions, and once a CheckOrCreatePredicate call has returned, the
\* store holds its edge.
EdgeUniqueness ==
    /\ \A e \in DOMAIN inserts : inserts[e] <= 1
    /\ \A p \in Procs :
          proc[p].copRet.returned =>
              Cardinality({e \in edges : e = NQuad(proc[p].parUid, proc[p].curUid)}) = 1

\* Two callers of the same edge have both returned, one of them after its
\* commit lost the conflict.
EdgeUniquenessWitness ==
    \E p, q \in Procs :
        /\ p # q
        /\ proc[p].copRet.returned /\ proc[q].copRet.returned
        /\ proc[p].parUid = proc[q].parUid /\ proc[p].curUid = proc[q].curUid
        /\ proc[p].copFails = 1 /\ proc[p].copTxns = 2

InCop(q) == q.pc \in {"cop_check", "cop_mutate", "cop_commit"}

\* What is left of a CheckOrCreatePredicate call: three steps per attempt.
CopMeasure(q) ==
    IF q.pc = "cop_check" THEN 3 * q.attempts
    ELSE IF q.pc = "cop_mutate" THEN 3 * q.attempts + 2
    ELSE IF q.pc = "cop_commit" THEN 3 * q.attempts + 1
    ELSE 0

\* C4. CheckOrCreatePredicate is bounded: a call opens at most 10
\* transactions, opens one only while attempts remain, and every step of
\* the call brings it nearer to its return.
CopBounded ==
    /\ [](\A p \in Procs :
            /\ proc[p].copTxns <= Attempts
            /\ InCop(proc[p]) =>
                  /\ proc[p].attempts >= 0
                  /\ proc[p].attempts + proc[p].copTxns = Attempts
                  /\ proc[p].pc = "cop_check" => proc[p].attempts > 0)
    /\ [][\A p \in Procs :
            InCop(proc[p]) =>
                \/ CopMeasure(proc'[p]) < CopMeasure(proc[p])
                \/ /\ proc'[p].pc = proc[p].pc
                   /\ proc'[p].attempts = proc[p].attempts
                   /\ proc'[p].copTxns = proc[p].copTxns]_vars

\* A call has returned after opening all 10 transactions.
CopBoundedWitness ==
    \E p \in Procs : proc[p].copRet.returned /\ proc[p].copTxns = Attempts

\* C5. CheckOrCreatePredicate propagates failure on exhaustion: a call all of
\* whose 10 attempts failed to insert returns the error of the last one.
CopExhaustionPropagates ==
    \A p \in Procs :
        proc[p].copRet.returned /\ proc[p].copFails = Attempts
            => /\ proc[p].copRet.err # NilErr
               /\ proc[p].copRet.err = proc[p].lastFail

\* C6. Create swallows transient edge failures: with both nodes found or
\* created, Create returns no error when CheckOrCreatePredicate failed with
\* a transaction conflict, and the error itself when it failed otherwise.
CreateSwallowsTransient ==
    \A p \in Procs :
        /\ proc[p].pc = "done"
        /\ FonOk(p, "self") /\ FonOk(p, "parent")
        /\ proc[p].copRet.returned /\ proc[p].copRet.err # NilErr
        => IF \/ Contains(proc[p].copRet.err, "Transaction has been aborted. Please retry.")
              \/ Contains(proc[p].copRet.err, "Transaction is too old")
           THEN proc[p].result = NilErr
           ELSE proc[p].result = proc[p].copRet.err

\* C7. FindOrCreateNode is bounded: a call opens at most a fixed number of
\* transactions (here MaxFonTxns, whatever its value).
FonBounded == \A p \in Procs : proc[p].fonTxns <= MaxFonTxns

\* C8. FindOrCreateNode aborts on non-transient commit errors: it opens
\* another transaction only after a commit that failed on a conflict.
FonAbortsOnNonTransient ==
    \A p \in Procs :
        proc[p].pc = "fon_find" /\ proc[p].fonTxns > 0 => IsTransient(proc[p].err)

\* C9. FindOrCreateNode postcondition: a call that returned no error returned
\* a non-empty uid, left it in the page's Uid, and the store holds the node
\* with that uid and the page's url.
FonPostcondition ==
    \A p \in Procs, s \in Stages :
        FonOk(p, s) =>
            /\ proc[p].fonRet[s].uid # EmptyUid
            /\ proc[p].pageUid[s] = proc[p].fonRet[s].uid
            /\ [uid |-> proc[p].fonRet[s].uid, url |-> CallUrl(p, s)] \in nodes

\* A call returned no error after its earlier commits had failed.
FonPostconditionWitness ==
    \E p \in Procs :
        /\ proc[p].pc = "done"
        /\ proc[p].page.Parent = NoParent
        /\ FonOk(p, "self")
        /\ proc[p].fonTxns = MaxFonTxns + 1

\* The Pages in Children of the Page of node n, as a set.
ChildSet(n) == {tPage[n].Children[i] : i \in 1..Len(tPage[n].Children)}

\* C10. Tree reconstruction is complete: when ConvertToPage has returned,
\* the Children of every Page hold exactly one Page per child of its node
\* (in any order), every Page carries the fields of its node, and its
\* Parent is the Page built for the enclosing node.
TreeComplete ==
    tpc[1] = "returned" =>
        \A n \in TreeNodes :
            /\ Len(tPage[n].Children) = Len(Kids(n))
            /\ ChildSet(n) = {m \in TreeNodes : json[m] = n}
            /\ tPage[n].Parent = json[n]
            /\ tPage[n].Uid = n /\ tPage[n].Url = JsonUrl(n)

\* The root with two children, one of them with a grandchild, converted to
\* a tree of depth 2 whose root received its children out of order.
TreeCompleteWitness ==
    /\ tpc[1] = "returned"
    /\ json = <<0, 1, 1, 2>>
    /\ tPage[1].Children = <<3, 2>>
    /\ tPage[2].Children = <<4>>
    /\ tPage[4].Parent = 2

\* Node d lies in the subtree below node n.
RECURSIVE Under(_, _)
Under(d, n) ==
    /\ d # NilPageRef
    /\ json[d] # NilPageRef
    /\ (json[d] = n \/ Under(json[d], n))

\* The call for node n has returned to its caller.
HasReturned(n) == tpc[n] \in {"send", "sent", "end", "returned"}

\* No send meets a closed channel, and a call that has returned has every
\* goroutine below it past its send and its wg.Done().
BarrierHolds ==
    /\ ~panicked
    /\ \A n \in TreeNodes :
        HasReturned(n) =>
            /\ closer[n] = "closed" /\ wg[n] = 0
            /\ \A d \in TreeNodes : Under(d, n) => tpc[d] = "end"

\* Children of a Page change only by the append of the range loop of its own
\* frame, on receiving the Page one of its child goroutines sends.
OwnFrameAppends ==
    \A n \in TreeNodes :
        tPage'[n].Children # tPage[n].Children =>
            /\ tpc[n] = "range" /\ tpc'[n] = "range"
            /\ \E c \in TreeNodes :
                /\ json[c] = n
                /\ tpc[c] = "send" /\ tpc'[c] = "sent"
                /\ tPage'[n].Children = Append(tPage[n].Children, c)

\* C11. The join barrier of ConvertToPage: every call returns under any
\* schedule; no goroutine sends on a closed channel; when a call returns,
\* every goroutine below it has finished sending; and the Children of a
\* Page are appended to only by the frame that built the Page.
JoinBarrier ==
    /\ []BarrierHolds
    /\ [][OwnFrameAppends]_vars
    /\ <>(tpc[1] = "returned")

\* A chain of depth 3 below the root, each frame returned after the
\* goroutine below it finished.
JoinBarrierWitness ==
    /\ json = <<0, 1, 2, 3>>
    /\ tpc[1] = "returned"
    /\ \A n \in 2..4 : tpc[n] = "end" /\ closer[n] = "closed"
    /\ tPage[2].Children = <<3>>

\* C16. Transaction release: every transaction FindOrCreateNode or
\* CheckOrCreatePredicate opens is discarded before the call returns, on
\* every exit path (success, query failure, mutation failure, commit
\* failure, edge already there).
TxnReleased == \A p \in Procs : ~proc[p].leaked /\ (proc[p].pc = "done" => ~proc[p].txnOpen)

\* The step of Create caller q is in, or ended in.
CreateStep(q) ==
    IF InCop(q) \/ q.copRet.returned THEN "edge"
    ELSE IF q.pc = "idle" THEN "none"
    ELSE q.stage

\* The steps of caller p's Create so far are in the order self, parent,
\* edge; each began after the one before it returned no error, the parent's
\* only for a page with a parent; and a Create that returned after a node
\* step failed returned that step's error and went no further.
StepsInOrder(p) ==
    LET q == proc[p]
    IN  /\ CreateStep(q) = "self" =>
            ~q.fonRet.parent.returned /\ ~q.copRet.returned /\ q.copTxns = 0
        /\ CreateStep(q) = "parent" =>
            /\ FonOk(p, "self") /\ q.page.Parent # NoParent
            /\ ~q.copRet.returned /\ q.copTxns = 0
        /\ CreateStep(q) = "edge" =>
            /\ FonOk(p, "self") /\ FonOk(p, "parent") /\ q.page.Parent # NoParent
            /\ q.parUid = q.fonRet.parent.uid /\ q.curUid = q.fonRet.self.uid
        /\ \A s \in Stages :
            q.fonRet[s].returned /\ q.fonRet[s].err # NilErr =>
                /\ q.pc = "done" /\ q.result = q.fonRet[s].err
                /\ CreateStep(q) = s
        /\ q.pc = "done" /\ q.page.Parent = NoParent => CreateStep(q) = "self"

\* C17. Create runs its steps in order: the page's own node, then the
\* parent's node only for a page with a parent, then the edge from the
\* parent's uid to the page's uid. When a node step returns an error Create
\* returns that error and performs no later step (no edge transaction is
\* opened), and what earlier steps committed stays in the store.
CreateStepOrder ==
    /\ [](\A p \in Procs : StepsInOrder(p))
    /\ [][nodes \subseteq nodes' /\ edges \subseteq edges']_vars

\* Create returned the error of the parent's node step; the node its first
\* step created is still in the store and no edge transaction was opened.
CreateStepOrderWitness ==
    \E p \in Procs :
        /\ proc[p].pc = "done" /\ proc[p].result # NilErr
        /\ FonOk(p, "self")
        /\ proc[p].fonRet.parent.returned
        /\ proc[p].result = proc[p].fonRet.parent.err
        /\ proc[p].copTxns = 0 /\ edges = {}
        /\ [uid |-> proc[p].fonRet.self.uid, url |-> proc[p].page.Url] \in nodes
        /\ \A o \in Procs \ {p} : proc[o].pc = "idle"

\* C20. A nil return of CheckOrCreatePredicate means the edge exists: when
\* the call has returned nil the store holds the edge from the parent's uid
\* to the child's, also when the insert of the final attempt, or its commit,
\* failed.
CopNilMeansEdge ==
    \A p \in Procs :
        proc[p].copRet.returned /\ proc[p].copRet.err = NilErr
            => NQuad(proc[p].parUid, proc[p].curUid) \in edges

\* The link h begins with an optional scheme, letters and a colon, and then
\* two slashes.
BeginsWithSchemeSlashes(h) ==
    \E k \in 0..Len(h) :
        /\ \/ k = 0
           \/ k >= 2 /\ h[k] = ":" /\ \A i \in 1..(k - 1) : IsLetters(h[i])
        /\ k + 2 <= Len(h)
        /\ h[k + 1] = "/" /\ h[k + 2] = "/"

\* C14. For every href h, IsRelativeUrl(h) is false if and only if h begins
\* with an optional scheme (letters followed by ':') followed by "//": the
\* absolute urls of the tests, of any scheme and letter case, and the
\* scheme-relative "//host" url are not relative; "/path" and a bare name
\* are.
IsRelativeUrlIff ==
    norm.call = "IsRelativeUrl" =>
        /\ norm.bool = FALSE <=> BeginsWithSchemeSlashes(norm.href)
        /\ norm.href \in {HttpExampleEdu, HttpExampleEduUpper, HttpsExmapleCom,
                          FtpFile, CdnLib} => ~norm.bool
        /\ norm.href \in {MyfolderTestTxt, Test} => norm.bool

\* IsRelativeUrl("HTTP://EXAMPLE.EDU") returned false.
IsRelativeUrlIffWitness ==
    /\ norm.call = "IsRelativeUrl"
    /\ norm.href = HttpExampleEduUpper
    /\ norm.bool = FALSE

\* The path of a link: the link up to its query or its fragment.
RECURSIVE LinkPath(_)
LinkPath(h) ==
    IF h = <<>> \/ Head(h) \in {"?", "#"} THEN <<>> ELSE <<Head(h)>> \o LinkPath(Tail(h))

\* C15. For every parseable rootUrl (here one with a scheme and a host) and
\* every relativeUrl (here one whose escapes are well-formed),
\* ParseRelativeUrl returns a URL with the scheme and the host of rootUrl, a
\* path equal to the relative link rooted at "/" with ".", "..", redundant
\* and trailing slashes collapsed, and an empty fragment.
ParseRelativeUrlCanonical ==
    LET root == ParseUrl(norm.root)
    IN  /\ norm.call = "ParseRelativeUrl"
        /\ root # NilUrl /\ root.Scheme # <<>> /\ root.Host # <<>>
        /\ ~BadEscape(norm.href)
        => /\ norm.abs # NilUrl
           /\ norm.abs.Scheme = root.Scheme /\ norm.abs.Host = root.Host
           /\ norm.abs.Path = Clean(<<"/">> \o LinkPath(norm.href))
           /\ norm.abs.Fragment = <<>>

\* The Content-Type declares the media type text/html, with or without
\* parameters.
DeclaresHtml(contentType) ==
    LET i == Index(contentType, ";")
    IN  (IF i = 0 THEN contentType ELSE Take(contentType, i - 1)) = TextHtml

\* C12. FetchChildPages on a response whose Content-Type does not declare an
\* HTML media type returns zero children and no error, without parsing the
\* body.
NonHtmlSkipped ==
    /\ fetch.pc \notin {"idle", "get"}
    /\ fetch.getErr = NilErr
    /\ ~DeclaresHtml(fetch.contentType)
    => /\ fetch.pc \in {"header", "returned"}
       /\ ~fetch.parsed
       /\ fetch.childPages = <<>>
       /\ fetch.err = NilErr

\* The call returned on a response of Content-Type application/json.
NonHtmlSkippedWitness ==
    /\ fetch.pc = "returned"
    /\ fetch.getErr = NilErr
    /\ fetch.contentType = ApplicationJson
    /\ ~fetch.parsed /\ fetch.closed
    /\ fetch.childPages = <<>> /\ fetch.err = NilErr

\* C13. FetchChildPages returns a non-nil error and no children whenever the
\* GET of page.Url fails (unreachable host, unsupported scheme such as ftp,
\* scheme-relative or relative url), and returns no fetch error when the GET
\* succeeds.
GetFailureReported ==
    /\ fetch.page.Url \in {FtpFile, CdnLib, MyfolderTestTxt, Test} =>
            \/ fetch.pc = "get"
            \/ fetch.pc = "returned" /\ fetch.getErr # NilErr
    /\ fetch.pc = "returned" /\ fetch.getErr # NilErr =>
            /\ fetch.err # NilErr /\ fetch.err = fetch.getErr
            /\ fetch.childPages = <<>> /\ ~fetch.parsed
    /\ fetch.pc = "returned" /\ fetch.getErr = NilErr =>
            fetch.err \notin {ErrScheme, ErrDial}

\* The call returned the error of a GET of https://www.exmaple.com, whose
\* host is not reached.
GetFailureReportedWitness ==
    /\ fetch.pc = "returned"
    /\ fetch.page.Url = HttpsExmapleCom
    /\ fetch.getErr = ErrDial /\ fetch.err = ErrDial
    /\ fetch.childPages = <<>>

\* The a element passes the filter of the callback.
Qualifies(a) ==
    a.ok /\ a.href # <<>> /\ IsRelativeUrl(a.href) /\ IsRelativeHtml(a.href)

\* What the href of the k-th a element visited resolves to.
Resolved(k) == ParseRelativeUrl(fetch.page.Url, fetch.anchors[k].href)

\* C18. FetchChildPages treats an absent ParseRelativeUrl result as "skip
\* this link": an href that resolves to nil produces no child, the call
\* does not fail or crash, and the other hrefs are still processed.
FetchSkipsNilUrl ==
    /\ fetch.pc # "panic"
    /\ \A k \in 1..Len(fetch.anchors) :
            Qualifies(fetch.anchors[k]) /\ Resolved(k) = NilUrl =>
                /\ fetch.err = NilErr
                /\ \A c \in 1..Len(fetch.childPages) : fetch.childPages[c].From # k

\* The first a element visited whose href passes the filter and resolves to
\* the path of the k-th.
FirstOfPath(k) ==
    CHOOSE i \in 1..k :
        /\ Qualifies(fetch.anchors[i]) /\ Resolved(i) # NilUrl
        /\ Resolved(i).Path = Resolved(k).Path
        /\ \A j \in 1..(i - 1) :
                ~(/\ Qualifies(fetch.anchors[j]) /\ Resolved(j) # NilUrl
                  /\ Resolved(j).Path = Resolved(k).Path)

\* The children are those of the de-duplication by resolved path.
Deduplicated ==
    LET cs == fetch.childPages
    IN  /\ \A c, d \in 1..Len(cs) :
                c # d => Resolved(cs[c].From).Path # Resolved(cs[d].From).Path
        /\ \A k \in 1..Len(fetch.anchors) :
                Qualifies(fetch.anchors[k]) /\ Resolved(k) # NilUrl =>
                    Cardinality({c \in 1..Len(cs) : cs[c].From = FirstOfPath(k)}) = 1
        /\ \A c \in 1..Len(cs) :
                /\ Qualifies(fetch.anchors[cs[c].From])
                /\ FirstOfPath(cs[c].From) = cs[c].From
                /\ cs[c].Depth = fetch.page.Depth - 1
                /\ cs[c].Url = <<>> \/ cs[c].Url[Len(cs[c].Url)] # "/"

\* C19. FetchChildPages de-duplicates by resolved path within one page: for
\* any sequence of anchors the call returns children no two of which have
\* the same resolved path, one child (the first occurrence) for every
\* distinct resolved path among the hrefs that are non-empty, relative and
\* HTML-like, each with Depth = page.Depth - 1 and a Url without trailing
\* slash.
FetchDeduplicates ==
    fetch.pc \in {"returned", "panic"} /\ fetch.parsed /\ fetch.err = NilErr =>
        fetch.pc = "returned" /\ Deduplicated

====
